---- MODULE Spec2Model ----
(***************************************************************************)
(* Model of src/app.py: the /ask pipeline (retrieve, fetch history, build  *)
(* memory, generate, gate images, merge and upsert) over a document        *)
(* container, with the pure helpers format_memory, format_search_content   *)
(* and str.split.                                                          *)
(*                                                                         *)
(* Text is a sequence of string tokens; a token is either a whitespace     *)
(* token (" ", "\n", "\t") or a piece of a word.  A dict is a function     *)
(* whose DOMAIN is its key set.                                            *)
(***************************************************************************)
EXTENDS Integers, Sequences, FiniteSets, TLC

VARIABLES
    container,              \* the Cosmos container: a set of documents
    clock,                  \* datetime.utcnow(), as a logical clock
    pc,                     \* pc[r]: where request r is in ask()
    req,                    \* req[r]: user_id, thread_id, user_input of request r
    search_results,         \* ask: search_results
    formatted_content,      \* ask: formatted_content
    conversation_history,   \* get_llm_response: conversation_history
    memory,                 \* get_llm_response: memory
    messages,               \* get_llm_response: messages
    response,               \* ask: response
    images,                 \* ask: images
    existing_conversation,  \* save_conversation: existing_conversation
    item,                   \* save_conversation: item
    reply,                  \* the HTTP reply of request r: status code and body
    log,                    \* log[r]: the external calls request r completed, in order
    failed,                 \* failed[r]: the step of request r that raised, or "none"
    fm_in,                  \* argument of a direct format_memory call
    fm_out,                 \* its result
    hist,                   \* the latest GET /history request and its reply
    gch                     \* the latest POST /getchathistory request and its outcome

vars == <<container, clock, pc, req, search_results, formatted_content,
          conversation_history, memory, messages, response, images,
          existing_conversation, item, reply, log, failed, fm_in, fm_out,
          hist, gch>>

askVars == <<container, clock, pc, req, search_results, formatted_content,
             conversation_history, memory, messages, response, images,
             existing_conversation, item, reply, log, failed>>

-----------------------------------------------------------------------------
(* Bounds and vocabulary *)

Reqs == {1, 2}                  \* request slots; each serves one /ask request
Users == {"u1", "u2"}
Threads == {"t1", "t2"}
Missing == ""                   \* a falsy field: data.get(...) gave None or ""
Questions == {<<"q1">>}           \* differs from every stored req
NoText == <<>>                  \* the empty string
MaxHist == 7                    \* longest Turn sequence given to format_memory directly

WordLimit == 160                \* app.py:253  word_count > 160
MemoryWindow == 5               \* app.py:84   conversation_history[-5:]

Range(s) == {s[i] : i \in 1..Len(s)}

\* sep.join(parts)
RECURSIVE Join(_, _)
Join(sep, parts) ==
    IF parts = <<>> THEN <<>>
    ELSE IF Len(parts) = 1 THEN parts[1]
    ELSE parts[1] \o sep \o Join(sep, Tail(parts))

-----------------------------------------------------------------------------
(* str.split() with no argument: the maximal runs of non-whitespace *)

IsSpace(c) == c \in {" ", "\n", "\t"}

\* the words of s[lo..hi], by halves: a word that spans the middle is the
\* last word of the left half joined to the first word of the right half
RECURSIVE SplitRange(_, _, _)
SplitRange(s, lo, hi) ==
    IF lo > hi THEN <<>>
    ELSE IF lo = hi THEN (IF IsSpace(s[lo]) THEN <<>> ELSE << <<s[lo]>> >>)
    ELSE LET mid == (lo + hi) \div 2
             L == SplitRange(s, lo, mid)
             R == SplitRange(s, mid + 1, hi)
         IN IF ~IsSpace(s[mid]) /\ ~IsSpace(s[mid + 1])
            THEN SubSeq(L, 1, Len(L) - 1) \o <<L[Len(L)] \o R[1]>> \o Tail(R)
            ELSE L \o R

split(s) == SplitRange(s, 1, Len(s))

\* n words "w" separated by single blanks
Words(n) == [i \in 1..(IF n = 0 THEN 0 ELSE 2 * n - 1) |-> IF i % 2 = 1 THEN "w" ELSE " "]

\* what the chat-completion call may return: exactly WordLimit words with
\* leading, doubled and trailing whitespace, and WordLimit + 1 words
Responses == { <<"\n", "w", " ">> \o <<" ">> \o Words(WordLimit - 1) \o <<"\n">>,
               Words(WordLimit + 1) }

-----------------------------------------------------------------------------
(* The container and get_conversation_history *)

Turn(q, a, imgs) == [req |-> q, res |-> a, img |-> imgs]
Thread(h, c) == [heading |-> h, chat |-> c]
Doc(u, h, ts) == [id |-> u, history |-> h, timestamp |-> ts]
NoItem == Doc(Missing, <<>>, 0)

\* the rows of S in ORDER BY c.timestamp DESC
RECURSIVE OrderByTimestampDesc(_)
OrderByTimestampDesc(S) ==
    IF S = {} THEN <<>>
    ELSE LET d == CHOOSE x \in S : \A y \in S : y.timestamp <= x.timestamp
         IN <<d>> \o OrderByTimestampDesc(S \ {d})

\* container.query_items("SELECT * FROM c WHERE c.id=@id ORDER BY c.timestamp DESC")
query_items(c, id) == OrderByTimestampDesc({d \in c : d.id = id})

get_conversation_history(c, user_id, thread_id) == query_items(c, user_id)

\* upsert_item as a patch: the threads the item does not name are kept
upsert_item_Merges(c, it) ==
    {d \in c : d.id # it.id}
    \cup { Doc(it.id,
               [k \in DOMAIN it.history \cup UNION {DOMAIN d.history : d \in {x \in c : x.id = it.id}} |->
                   IF k \in DOMAIN it.history THEN it.history[k]
                   ELSE (CHOOSE d \in c : d.id = it.id).history[k]],
               it.timestamp) }

\* upsert_item replacing the whole container by the item
upsert_item_ReplacesAll(c, it) == {it}

\* upsert_item as an insert: the item is added beside the stored documents
upsert_item_Inserts(c, it) == c \cup {it}

\* container.upsert_item(item): the document with item's id is replaced whole
upsert_item(c, it) == {d \in c : d.id # it.id} \cup {it}

-----------------------------------------------------------------------------
(* format_memory *)

Max(a, b) == IF a >= b THEN a ELSE b

\* s[-n:]
LastN(s, n) == SubSeq(s, Max(1, Len(s) - n + 1), Len(s))

\* MemorySlice taking the first Turns: conversation_history[:5]
MemorySlice_First(h) == SubSeq(h, 1, IF Len(h) < MemoryWindow THEN Len(h) ELSE MemoryWindow)

\* conversation_history[-5:]
MemorySlice(h) == LastN(h, MemoryWindow)

\* f"User: {item['req']}\nBot: {item['res']}"
MemoryEntry(t) == <<"User: ">> \o t.req \o <<"\n", "Bot: ">> \o t.res

format_memory(h) ==
    LET w == MemorySlice(h)
    IN Join(<<"\n">>, [i \in 1..Len(w) |-> MemoryEntry(w[i])])

-----------------------------------------------------------------------------
(* search_with_vector and format_search_content *)

Hit(p, c, s) == [page_number |-> p, page_content |-> c, score |-> s]

\* what the search service may return for a query (at most k_nearest_neighbors rows)
SearchHits == { <<>>,
                <<Hit("B7", "carb", 2), Hit("a3", "coil", 1)>> }

Digit(i) == <<"1", "2", "3", "4">>[i]

\* str(page_number).lower(), on the page labels of SearchHits
Lower(p) == CASE p = "B7" -> "b7" [] OTHER -> p

ImagePath(p) == <<"output_images/", Lower(p), ".jpg">>

\* the loop of search_with_vector over enumerate(results, start=1)
Passages(results) ==
    [i \in 1..Len(results) |->
        [doc_ref |-> <<"[doc", Digit(i), "]">>,
         page_number |-> results[i].page_number,
         page_content |-> results[i].page_content,
         score |-> results[i].score,
         image_path |-> ImagePath(results[i].page_number)]]

format_search_content(sr) ==
    Join(<<"\n">>, [i \in 1..Len(sr) |->
        sr[i].doc_ref \o <<" page ", sr[i].page_number, ": ", sr[i].page_content>>])

-----------------------------------------------------------------------------
(* get_llm_response: memory and messages *)

\* ThreadChat falling back to some other thread when thread_id is new
ThreadChat_AnyThread(history, thread_id) ==
    IF thread_id \in DOMAIN history THEN history[thread_id].chat
    ELSE IF DOMAIN history = {} THEN <<>>
    ELSE history[CHOOSE k \in DOMAIN history : TRUE].chat

\* history.get(thread_id, {}).get("chat", [])
ThreadChat(history, thread_id) ==
    IF thread_id \in DOMAIN history THEN history[thread_id].chat ELSE <<>>

\* lines 94-99
MemoryOf(items, thread_id) ==
    IF items # <<>> THEN format_memory(ThreadChat(items[1].history, thread_id))
    ELSE NoText

Message(role, content) == [role |-> role, content |-> content]

\* lines 106-130; the system prompt is the fixed token "SYSTEM"
BuildMessages(mem, user_input, search_content) ==
    <<Message("system", <<"SYSTEM">>)>>
    \o (IF mem # NoText THEN <<Message("user", mem)>> ELSE <<>>)
    \o <<Message("user", user_input \o <<"\n\nSearch results:\n">> \o search_content)>>

-----------------------------------------------------------------------------
(* ask: the image gate *)

word_count(resp) == Len(split(resp))

\* AttachImages with the threshold test off by one
AttachImages_AtLimit(resp, sr) ==
    IF word_count(resp) >= WordLimit THEN [i \in 1..Len(sr) |-> sr[i].image_path]
    ELSE <<>>

\* [res['image_path'] for res in search_results] if word_count > 160 else []
AttachImages(resp, sr) ==
    IF word_count(resp) > WordLimit THEN [i \in 1..Len(sr) |-> sr[i].image_path]
    ELSE <<>>

-----------------------------------------------------------------------------
(* save_conversation *)

\* existing_conversation[0] raises IndexError on an empty result
SaveRaises(existing) == Len(existing) = 0

\* SaveItem with the old chat of an existing thread forgotten
SaveItem_ForgetsChat(existing, user_id, thread_id, user_message, bot_response, imgs, now) ==
    LET oldHistory == existing[1].history
        new == Turn(user_message, bot_response, imgs)
    IN Doc(user_id,
           [k \in DOMAIN oldHistory \cup {thread_id} |->
               IF k = thread_id THEN Thread(user_message, <<new>>) ELSE oldHistory[k]],
           now)

\* SaveItem with the heading of an existing thread left as it was
SaveItem_KeepsHeading(existing, user_id, thread_id, user_message, bot_response, imgs, now) ==
    LET oldHistory == existing[1].history
        new == Turn(user_message, bot_response, imgs)
    IN IF thread_id \in DOMAIN oldHistory
       THEN Doc(user_id,
                [k \in {thread_id} |->
                    Thread(oldHistory[thread_id].heading,
                           Append(ThreadChat(oldHistory, thread_id), new))],
                now)
       ELSE Doc(user_id,
                [k \in DOMAIN oldHistory \cup {thread_id} |->
                    IF k = thread_id THEN Thread(user_message, <<new>>)
                    ELSE oldHistory[k]],
                now)

\* lines 151-181: the item built from the fetched document
SaveItem(existing, user_id, thread_id, user_message, bot_response, imgs, now) ==
    LET oldHistory == existing[1].history
        new == Turn(user_message, bot_response, imgs)
    IN IF thread_id \in DOMAIN oldHistory
       THEN Doc(user_id,
                [k \in {thread_id} |->
                    Thread(user_message, Append(ThreadChat(oldHistory, thread_id), new))],
                now)
       ELSE Doc(user_id,
                [k \in DOMAIN oldHistory \cup {thread_id} |->
                    IF k = thread_id THEN Thread(user_message, <<new>>)
                    ELSE oldHistory[k]],
                now)

-----------------------------------------------------------------------------
(* The stored documents a run may start from *)

Ta == Turn(<<"qa">>, <<"ra">>, <<>>)
Tb == Turn(<<"qb">>, <<"rb">>, <<ImagePath("a3")>>)
Tc(i) == Turn(<<"qc", Digit(i)>>, <<"rc", Digit(i)>>, <<>>)

H1 == [k \in {"t1"} |-> Thread(Ta.req, <<Ta>>)]
H12 == [k \in {"t1", "t2"} |->
          IF k = "t1" THEN Thread(Ta.req, <<Ta>>) ELSE Thread(Tb.req, <<Ta, Tb>>)]
H2 == [k \in {"t2"} |-> Thread(Tc(4).req, <<Tc(1), Tc(2), Tc(3), Tc(1), Tc(2), Tc(4)>>)]

InitContainers ==
    { a \cup b : a \in { {}, {Doc("u1", H1, 0)}, {Doc("u1", H12, 0)} },
                 b \in { {}, {Doc("u2", H2, 0)} } }

-----------------------------------------------------------------------------
(* ask: control flow *)

NoReq == [user_id |-> Missing, thread_id |-> Missing, user_input |-> NoText]
NoReply == [code |-> 0, error |-> "", response |-> NoText, images |-> <<>>]
BadRequest ==
    [code |-> 400, error |-> "Missing 'user_id', 'thread', or 'question' in request.",
     response |-> NoText, images |-> <<>>]
ServerError ==
    [code |-> 500, error |-> "An error occurred while processing your request.",
     response |-> NoText, images |-> <<>>]
\* Ok with the images left out of the reply
Ok_NoImages(resp, imgs) == [code |-> 200, error |-> "", response |-> resp, images |-> <<>>]

\* line 264
Ok(resp, imgs) == [code |-> 200, error |-> "", response |-> resp, images |-> imgs]

\* Invalid with the test of thread_id left out
Invalid_IgnoresThread(user_id, thread_id, user_input) ==
    user_id = Missing \/ user_input = NoText

\* line 237
Invalid(user_id, thread_id, user_input) ==
    user_id = Missing \/ thread_id = Missing \/ user_input = NoText

\* StepAfter with save_conversation called before get_llm_response
StepAfter_SaveFirst(step) ==
    CASE step = "search" -> "save"
      [] step = "save" -> "upsert"
      [] step = "upsert" -> "fetch"
      [] step = "fetch" -> "generate"
      [] step = "generate" -> "done"

\* the statements of the try block, lines 242-256, in program order
StepAfter(step) ==
    CASE step = "search" -> "fetch"
      [] step = "fetch" -> "generate"
      [] step = "generate" -> "save"
      [] step = "save" -> "upsert"
      [] step = "upsert" -> "done"

\* OnException with a failed generation swallowed: the request goes on to save
OnException_Swallows(step) == IF step = "generate" THEN StepAfter(step) ELSE "done"

\* lines 265-268: an exception anywhere in the try block ends the request
OnException(step) == "done"

Calls == {"search", "fetch", "generate", "save", "upsert"}

-----------------------------------------------------------------------------
(* history: GET /history/<user_id>/<thread_id> *)

NoHist == [user_id |-> Missing, thread_id |-> Missing, items |-> <<>>, code |-> 0,
           error |-> "", body |-> <<>>]

\* [{"req": item.get('req'), "res": item.get('res')} for item in thread_history]
HistoryPairs(chat) == [i \in 1..Len(chat) |-> [req |-> chat[i].req, res |-> chat[i].res]]

\* HistoryReply answering 404 also when the thread has no Turn to show
HistoryReply_EmptyIs404(items, user_id, thread_id) ==
    IF items = <<>> \/ ThreadChat(items[1].history, thread_id) = <<>>
    THEN [user_id |-> user_id, thread_id |-> thread_id, items |-> items, code |-> 404,
          error |-> "No conversation history found.", body |-> <<>>]
    ELSE [user_id |-> user_id, thread_id |-> thread_id, items |-> items, code |-> 200,
          error |-> "",
          body |-> HistoryPairs(ThreadChat(items[1].history, thread_id))]

\* lines 276-284: the reply when the query returned items
HistoryReply(items, user_id, thread_id) ==
    IF items = <<>>
    THEN [user_id |-> user_id, thread_id |-> thread_id, items |-> items, code |-> 404,
          error |-> "No conversation history found.", body |-> <<>>]
    ELSE [user_id |-> user_id, thread_id |-> thread_id, items |-> items, code |-> 200,
          error |-> "",
          body |-> HistoryPairs(ThreadChat(items[1].history, thread_id))]

\* lines 285-287: the reply when the query raised
HistoryError(user_id, thread_id) ==
    [user_id |-> user_id, thread_id |-> thread_id, items |-> <<>>, code |-> 500,
     error |-> "An error occurred while fetching conversation history.", body |-> <<>>]

-----------------------------------------------------------------------------
(* get_history: POST /getchathistory *)

NoGch == [user_id |-> Missing, items |-> <<>>, code |-> 0, raised |-> "", body |-> <<>>]

\* GetHistoryOutcome with the empty result guarded by a not-found reply
GetHistoryOutcome_NotFound(items, user_id) ==
    IF items = <<>>
    THEN [user_id |-> user_id, items |-> items, code |-> 404, raised |-> "",
          body |-> <<>>]
    ELSE [user_id |-> user_id, items |-> items, code |-> 200, raised |-> "",
          body |-> items[1].history]

\* lines 60-65: items[0]["history"] is returned; on an empty result the
\* index raises and nothing in the handler catches it
GetHistoryOutcome(items, user_id) ==
    IF items = <<>>
    THEN [user_id |-> user_id, items |-> items, code |-> 0, raised |-> "IndexError",
          body |-> <<>>]
    ELSE [user_id |-> user_id, items |-> items, code |-> 200, raised |-> "",
          body |-> items[1].history]

Init ==
    /\ container \in InitContainers
    /\ clock = 1
    /\ pc = [r \in Reqs |-> "idle"]
    /\ req = [r \in Reqs |-> NoReq]
    /\ search_results = [r \in Reqs |-> <<>>]
    /\ formatted_content = [r \in Reqs |-> NoText]
    /\ conversation_history = [r \in Reqs |-> <<>>]
    /\ memory = [r \in Reqs |-> NoText]
    /\ messages = [r \in Reqs |-> <<>>]
    /\ response = [r \in Reqs |-> NoText]
    /\ images = [r \in Reqs |-> <<>>]
    /\ existing_conversation = [r \in Reqs |-> <<>>]
    /\ item = [r \in Reqs |-> NoItem]
    /\ reply = [r \in Reqs |-> NoReply]
    /\ log = [r \in Reqs |-> <<>>]
    /\ failed = [r \in Reqs |-> "none"]
    /\ fm_in = <<>>
    /\ fm_out = [done |-> FALSE, text |-> NoText]
    /\ hist = NoHist
    /\ gch = NoGch

\* lines 231-238: the request arrives and is validated
Start(r) ==
    /\ pc[r] = "idle"
    /\ \E u \in Users \cup {Missing}, t \in Threads \cup {Missing},
          q \in Questions \cup {NoText} :
        /\ req' = [req EXCEPT ![r] = [user_id |-> u, thread_id |-> t, user_input |-> q]]
        /\ IF Invalid(u, t, q)
           THEN /\ pc' = [pc EXCEPT ![r] = "done"]
                /\ reply' = [reply EXCEPT ![r] = BadRequest]
           ELSE /\ pc' = [pc EXCEPT ![r] = "search"]
                /\ UNCHANGED reply
    /\ UNCHANGED <<container, clock, search_results, formatted_content,
                   conversation_history, memory, messages, response, images,
                   existing_conversation, item, log, failed, fm_in, fm_out, hist, gch>>

\* lines 242-245: search_with_vector and format_search_content
Search(r) ==
    /\ pc[r] = "search"
    /\ \E hits \in SearchHits :
        /\ search_results' = [search_results EXCEPT ![r] = Passages(hits)]
        /\ formatted_content' =
              [formatted_content EXCEPT ![r] = format_search_content(Passages(hits))]
    /\ log' = [log EXCEPT ![r] = Append(@, "search")]
    /\ pc' = [pc EXCEPT ![r] = StepAfter("search")]
    /\ UNCHANGED <<container, clock, req, conversation_history, memory, messages,
                   response, images, existing_conversation, item, reply, failed,
                   fm_in, fm_out, hist, gch>>

\* lines 91-130: get_llm_response up to the chat-completion call
Fetch(r) ==
    /\ pc[r] = "fetch"
    /\ LET items == get_conversation_history(container, req[r].user_id, req[r].thread_id)
           mem == MemoryOf(items, req[r].thread_id)
       IN /\ conversation_history' = [conversation_history EXCEPT ![r] = items]
          /\ memory' = [memory EXCEPT ![r] = mem]
          /\ messages' = [messages EXCEPT ![r] =
                BuildMessages(mem, req[r].user_input, formatted_content[r])]
    /\ log' = [log EXCEPT ![r] = Append(@, "fetch")]
    /\ pc' = [pc EXCEPT ![r] = StepAfter("fetch")]
    /\ UNCHANGED <<container, clock, req, search_results, formatted_content,
                   response, images, existing_conversation, item, reply, failed,
                   fm_in, fm_out, hist, gch>>

\* lines 139-144 and 252-253: the chat completion returns, images are gated
Generate(r) ==
    /\ pc[r] = "generate"
    /\ \E resp \in Responses :
        /\ response' = [response EXCEPT ![r] = resp]
        /\ images' = [images EXCEPT ![r] = AttachImages(resp, search_results[r])]
    /\ log' = [log EXCEPT ![r] = Append(@, "generate")]
    /\ pc' = [pc EXCEPT ![r] = StepAfter("generate")]
    /\ UNCHANGED <<container, clock, req, search_results, formatted_content,
                   conversation_history, memory, messages, existing_conversation,
                   item, reply, failed, fm_in, fm_out, hist, gch>>

\* lines 150-181: save_conversation fetches again and builds the item
Save(r) ==
    /\ pc[r] = "save"
    /\ LET existing == get_conversation_history(container, req[r].user_id, req[r].thread_id)
       IN /\ existing_conversation' = [existing_conversation EXCEPT ![r] = existing]
          /\ IF SaveRaises(existing)
             THEN /\ failed' = [failed EXCEPT ![r] = "merge"]
                  /\ pc' = [pc EXCEPT ![r] = OnException("save")]
                  /\ reply' = [reply EXCEPT ![r] = ServerError]
                  /\ UNCHANGED <<item, clock, log>>
             ELSE /\ item' = [item EXCEPT ![r] =
                        SaveItem(existing, req[r].user_id, req[r].thread_id,
                                 req[r].user_input, response[r], images[r], clock)]
                  /\ clock' = clock + 1
                  /\ log' = [log EXCEPT ![r] = Append(@, "save")]
                  /\ pc' = [pc EXCEPT ![r] = StepAfter("save")]
                  /\ UNCHANGED <<failed, reply>>
    /\ UNCHANGED <<container, req, search_results, formatted_content,
                   conversation_history, memory, messages, response, images,
                   fm_in, fm_out, hist, gch>>

\* lines 184 and 261-264: the upsert, then the 200 reply
Upsert(r) ==
    /\ pc[r] = "upsert"
    /\ container' = upsert_item(container, item[r])
    /\ log' = [log EXCEPT ![r] = Append(@, "upsert")]
    /\ pc' = [pc EXCEPT ![r] = StepAfter("upsert")]
    /\ reply' = [reply EXCEPT ![r] = Ok(response[r], images[r])]
    /\ UNCHANGED <<clock, req, search_results, formatted_content,
                   conversation_history, memory, messages, response, images,
                   existing_conversation, item, failed, fm_in, fm_out, hist, gch>>

\* lines 265-268: the external call request r is waiting on raises
Raise(r) ==
    /\ pc[r] \in Calls
    /\ failed' = [failed EXCEPT ![r] = pc[r]]
    /\ pc' = [pc EXCEPT ![r] = OnException(pc[r])]
    /\ reply' = [reply EXCEPT ![r] =
          IF OnException(pc[r]) = "done" THEN ServerError ELSE @]
    /\ UNCHANGED <<container, clock, req, search_results, formatted_content,
                   conversation_history, memory, messages, response, images,
                   existing_conversation, item, log, fm_in, fm_out, hist, gch>>

Next ==
    \E r \in Reqs :
        \/ Start(r)
        \/ Search(r)
        \/ Fetch(r)
        \/ Generate(r)
        \/ Save(r)
        \/ Upsert(r)
        \/ Raise(r)

Spec == Init /\ [][Next]_vars

-----------------------------------------------------------------------------
(* Requests that do not overlap: a request arrives only when no other is running *)

StartAlone(r) ==
    /\ \A o \in Reqs \ {r} : pc[o] \in {"idle", "done"}
    /\ Start(r)

NextSeq ==
    \E r \in Reqs :
        \/ StartAlone(r)
        \/ Search(r)
        \/ Fetch(r)
        \/ Generate(r)
        \/ Save(r)
        \/ Upsert(r)
        \/ Raise(r)

SpecSeq == Init /\ [][NextSeq]_vars

-----------------------------------------------------------------------------
(* format_memory called directly on a Turn sequence *)

FmtTurns == {Ta, Tb}
FmtInputs == UNION { [1..n -> FmtTurns] : n \in 0..MaxHist }

InitFmt ==
    /\ container = {}
    /\ clock = 1
    /\ pc = [r \in Reqs |-> "idle"]
    /\ req = [r \in Reqs |-> NoReq]
    /\ search_results = [r \in Reqs |-> <<>>]
    /\ formatted_content = [r \in Reqs |-> NoText]
    /\ conversation_history = [r \in Reqs |-> <<>>]
    /\ memory = [r \in Reqs |-> NoText]
    /\ messages = [r \in Reqs |-> <<>>]
    /\ response = [r \in Reqs |-> NoText]
    /\ images = [r \in Reqs |-> <<>>]
    /\ existing_conversation = [r \in Reqs |-> <<>>]
    /\ item = [r \in Reqs |-> NoItem]
    /\ reply = [r \in Reqs |-> NoReply]
    /\ log = [r \in Reqs |-> <<>>]
    /\ failed = [r \in Reqs |-> "none"]
    /\ fm_in \in FmtInputs
    /\ fm_out = [done |-> FALSE, text |-> NoText]
    /\ hist = NoHist
    /\ gch = NoGch

FormatMemoryCall ==
    /\ ~fm_out.done
    /\ fm_out' = [done |-> TRUE, text |-> format_memory(fm_in)]
    /\ UNCHANGED <<askVars, fm_in, hist, gch>>

NextFmt == FormatMemoryCall

SpecFmt == InitFmt /\ [][NextFmt]_vars

-----------------------------------------------------------------------------
(* The read endpoints beside one /ask request; a run serves one request of *)
(* each read endpoint                                                      *)

\* lines 270-284: GET /history, the query returning
History ==
    /\ hist = NoHist
    /\ \E u \in Users, t \in Threads :
          hist' = HistoryReply(get_conversation_history(container, u, t), u, t)
    /\ UNCHANGED <<askVars, fm_in, fm_out, gch>>

\* lines 285-287: GET /history, the query raising
HistoryRaises ==
    /\ hist = NoHist
    /\ \E u \in Users, t \in Threads : hist' = HistoryError(u, t)
    /\ UNCHANGED <<askVars, fm_in, fm_out, gch>>

\* lines 54-65: POST /getchathistory, the query returning
GetHistory ==
    /\ hist = NoHist
    /\ \E u \in Users \cup {Missing} :
          gch' = GetHistoryOutcome(query_items(container, u), u)
    /\ UNCHANGED <<askVars, fm_in, fm_out, hist>>

\* line 60: POST /getchathistory, the query raising; nothing catches it
GetHistoryRaises ==
    /\ hist = NoHist
    /\ \E u \in Users \cup {Missing} :
          gch' = [user_id |-> u, items |-> <<>>, code |-> 0, raised |-> "query",
                  body |-> <<>>]
    /\ UNCHANGED <<askVars, fm_in, fm_out, hist>>

AskStep(r) ==
    \/ Start(r)
    \/ Search(r)
    \/ Fetch(r)
    \/ Generate(r)
    \/ Save(r)
    \/ Upsert(r)
    \/ Raise(r)

NextRead ==
    \/ AskStep(1)
    \/ History
    \/ HistoryRaises
    \/ GetHistory
    \/ GetHistoryRaises

SpecRead == Init /\ [][NextRead]_vars

-----------------------------------------------------------------------------
(* Vocabulary of the properties *)

\* request r completes the named external call in this step
Completes(r, call) == log'[r] = Append(log[r], call)

\* the history mapping stored for user u in container c (u has a document)
StoredHistory(c, u) == query_items(c, u)[1].history

HasDoc(c, u) == query_items(c, u) # <<>>

\* the mapping h without key t
Without(h, t) == [k \in DOMAIN h \ {t} |-> h[k]]

IsPrefix(a, b) == Len(a) <= Len(b) /\ SubSeq(b, 1, Len(a)) = a

\* the Turn request r is saving
NewTurn(r) == Turn(req[r].user_input, response[r], images[r])

\* the history save_conversation of request r fetched
FetchedHistory(r) == existing_conversation[r][1].history

-----------------------------------------------------------------------------
\* C1: every upsert of an ask on thread t leaves the stored history, restricted
\* to the thread keys other than t, equal to what it was before the ask
\* (sibling threads are carried forward untouched), whether or not t was a key.
C1_SiblingsCarried ==
    [][\A r \in Reqs :
          Completes(r, "upsert") =>
              Without(StoredHistory(container', req[r].user_id), req[r].thread_id)
                = Without(StoredHistory(container, req[r].user_id), req[r].thread_id)]_vars

\* C2: the upsert of a successful ask on thread t stores, as history[t].chat,
\* the chat of t in the history H that save_conversation fetched with the new
\* Turn {req, res, img} appended when t is a key of H, and the singleton
\* sequence of the new Turn when t is not a key of H.
C2_TurnAppended ==
    [][\A r \in Reqs :
          Completes(r, "upsert") =>
              LET t == req[r].thread_id
                  H == FetchedHistory(r)
                  after == StoredHistory(container', req[r].user_id)
              IN /\ reply'[r].code = 200
                 /\ t \in DOMAIN after
                 /\ after[t].chat = IF t \in DOMAIN H
                                    THEN H[t].chat \o <<NewTurn(r)>>
                                    ELSE <<NewTurn(r)>>]_vars

\* C2 witness: one ask answered 200 on a thread that was a key of the fetched
\* history and one answered 200 on a thread that was not
C2_Witness ==
    \E r1, r2 \in Reqs :
        /\ reply[r1].code = 200 /\ reply[r2].code = 200
        /\ req[r1].thread_id \in DOMAIN FetchedHistory(r1)
        /\ req[r2].thread_id \notin DOMAIN FetchedHistory(r2)

\* C3: an ask of a user with no stored document, in which no external call
\* fails, is answered 200 and leaves a document for the user whose history is
\* exactly {t: {heading: q, chat: [{req: q, res: response, img: images}]}}.
C3_NewUserCreated ==
    \A r \in Reqs :
        ( /\ pc[r] = "done"
          /\ ~Invalid(req[r].user_id, req[r].thread_id, req[r].user_input)
          /\ failed[r] \notin Calls
          /\ conversation_history[r] = <<>> )
        => /\ reply[r].code = 200
           /\ HasDoc(container, req[r].user_id)
           /\ StoredHistory(container, req[r].user_id)
                = [k \in {req[r].thread_id} |->
                      Thread(req[r].user_input, <<NewTurn(r)>>)]

\* C4: over non-overlapping asks, every step keeps every stored thread and
\* keeps its earlier chat as a prefix of its chat (Turns are append-only).
C4_AppendOnly ==
    [][\A u \in Users :
          HasDoc(container, u) =>
              /\ HasDoc(container', u)
              /\ \A t \in DOMAIN StoredHistory(container, u) :
                    /\ t \in DOMAIN StoredHistory(container', u)
                    /\ IsPrefix(StoredHistory(container, u)[t].chat,
                                StoredHistory(container', u)[t].chat)]_vars

\* C5: a request in which any step raises (search, fetch, generation, the merge
\* or the upsert) ends at once with the generic 500 reply and has written
\* nothing; the container changes only in the upsert of a request that then
\* replies 200.
C5_NoWriteOnFailure ==
    [][/\ \A r \in Reqs :
            failed'[r] # "none" =>
                /\ pc'[r] = "done"
                /\ reply'[r] = ServerError
                /\ "upsert" \notin Range(log'[r])
       /\ container' # container =>
            \E r \in Reqs : /\ Completes(r, "upsert")
                            /\ failed'[r] = "none"
                            /\ reply'[r].code = 200]_vars

\* C5 witness: one request failed in the upsert itself and one in the merge
C5_Witness ==
    \E r1, r2 \in Reqs :
        /\ failed[r1] = "upsert" /\ reply[r1].code = 500
        /\ failed[r2] = "merge" /\ reply[r2].code = 500

\* request r1's write landed while request r2, of the same user on another
\* thread, was between the fetch and the upsert of save_conversation: r2 fetched
\* a document older than r1's item, and r2's upsert was the later one
Raced(r1, r2) ==
    /\ r1 # r2
    /\ reply[r1].code = 200 /\ reply[r2].code = 200
    /\ req[r1].user_id = req[r2].user_id
    /\ req[r1].thread_id # req[r2].thread_id
    /\ existing_conversation[r2][1].timestamp < item[r1].timestamp
    /\ query_items(container, req[r2].user_id)[1].timestamp = item[r2].timestamp

\* the chat request r wrote for its thread is the chat stored for that thread
TurnKept(r) ==
    LET h == StoredHistory(container, req[r].user_id)
        t == req[r].thread_id
    IN t \in DOMAIN h /\ h[t].chat = item[r].history[t].chat

\* C6: whenever two asks of one user on different threads both return 200 and
\* the upsert of one lands between the other's fetch and upsert, the final
\* stored document lacks the Turn the first one appended (lost update).
C6_LostUpdate ==
    \A r1, r2 \in Reqs : Raced(r1, r2) => ~TurnKept(r1)

\* C6 witness: such a race in which the overwriting request asked on a new
\* thread, so its item carries every thread it fetched
C6_Witness ==
    \E r1, r2 \in Reqs :
        /\ Raced(r1, r2)
        /\ req[r2].thread_id \notin DOMAIN FetchedHistory(r2)
        /\ ~TurnKept(r1)

Before(l, a, b) == \A i \in 1..Len(l) : l[i] = b => \E j \in 1..(i - 1) : l[j] = a

\* C7: in every request the generation call is awaited and completed only
\* after retrieval has completed, and the upsert is issued and completed only
\* after the generation call has returned; each call happens at most once.
C7_Sequential ==
    \A r \in Reqs :
        /\ Before(log[r], "search", "generate")
        /\ Before(log[r], "generate", "upsert")
        /\ pc[r] = "generate" => "search" \in Range(log[r])
        /\ pc[r] = "upsert" => "generate" \in Range(log[r])
        /\ \A i, j \in 1..Len(log[r]) : log[r][i] = log[r][j] => i = j

\* C7 witness: a request that made every call
C7_Witness ==
    \E r \in Reqs : log[r] = <<"search", "fetch", "generate", "save", "upsert">>

\* the positions of s where a whitespace-separated word starts
WordStarts(s) ==
    {i \in 1..Len(s) : ~IsSpace(s[i]) /\ (i = 1 \/ IsSpace(s[i - 1]))}

\* the gate, for a response, the retrieved passages and an image list
Gated(resp, sr, imgs) ==
    LET n == Cardinality(WordStarts(resp))
    IN /\ n <= 160 => imgs = <<>>
       /\ n > 160 => /\ Len(imgs) = Len(sr)
                     /\ \A i \in 1..Len(sr) : imgs[i] = sr[i].image_path

\* C8: the image list computed after generation is empty when the response
\* has at most 160 whitespace-separated words and otherwise holds the
\* image_path of every retrieved passage in retrieval order; that list is the
\* one returned in the 200 reply and stored as img of the new Turn.
C8_ImageGate ==
    [][\A r \in Reqs :
          /\ Completes(r, "generate") => Gated(response'[r], search_results[r], images'[r])
          /\ Completes(r, "upsert") =>
                LET chat == StoredHistory(container', req[r].user_id)[req[r].thread_id].chat
                IN /\ Gated(response[r], search_results[r], chat[Len(chat)].img)
                   /\ Gated(response[r], search_results[r], reply'[r].images)]_vars

\* C8 witness: a 200 reply with images and one without although passages
\* were retrieved
C8_Witness ==
    \E r1, r2 \in Reqs :
        /\ reply[r1].code = 200 /\ Len(reply[r1].images) = 2
        /\ reply[r2].code = 200 /\ reply[r2].images = <<>>
        /\ search_results[r2] # <<>>
        /\ Cardinality(WordStarts(response[r2])) = 160

\* the lines of a text: its pieces between "\n" tokens
RECURSIVE LinesFrom(_, _, _, _)
LinesFrom(s, i, cur, acc) ==
    IF i > Len(s) THEN Append(acc, cur)
    ELSE IF s[i] = "\n" THEN LinesFrom(s, i + 1, <<>>, Append(acc, cur))
    ELSE LinesFrom(s, i + 1, Append(cur, s[i]), acc)

LinesOf(s) == LinesFrom(s, 1, <<>>, <<>>)

Min(a, b) == IF a <= b THEN a ELSE b

\* C9: format_memory of n Turns is the empty string for n = 0 and otherwise
\* has exactly 2 * min(n, 5) lines: for the last min(n, 5) Turns, in order, a
\* "User: <req>" line followed by a "Bot: <res>" line, and nothing of an
\* older Turn.
C9_MemoryWindow ==
    fm_out.done =>
        LET n == Len(fm_in)
            k == Min(n, 5)
            L == LinesOf(fm_out.text)
        IN /\ n = 0 => fm_out.text = NoText
           /\ n > 0 =>
                /\ Len(L) = 2 * k
                /\ \A j \in 1..k :
                      /\ L[2 * j - 1] = <<"User: ">> \o fm_in[n - k + j].req
                      /\ L[2 * j] = <<"Bot: ">> \o fm_in[n - k + j].res

\* C9 witness: a formatted sequence longer than the window whose oldest Turn
\* differs from every Turn of the window
C9_Witness ==
    /\ fm_out.done
    /\ Len(fm_in) > 5
    /\ \A i \in 2..Len(fm_in) : fm_in[i] # fm_in[1]

\* C10: the memory built by the fetch of an ask (user u, thread t) is
\* format_memory of history[t].chat of the stored document of u, and is empty
\* when u has no document or t is no key of its history; the messages for the
\* generation call hold that memory as their only memory block, and none when
\* it is empty.
C10_MemoryScoped ==
    [][\A r \in Reqs :
          Completes(r, "fetch") =>
              LET docs == {d \in container : d.id = req[r].user_id}
                  t == req[r].thread_id
                  m == messages'[r]
              IN /\ docs = {} => memory'[r] = NoText
                 /\ \A d \in docs :
                       memory'[r] = IF t \in DOMAIN d.history
                                    THEN format_memory(d.history[t].chat)
                                    ELSE NoText
                 /\ IF memory'[r] = NoText
                    THEN Len(m) = 2
                    ELSE Len(m) = 3 /\ m[2] = Message("user", memory'[r])
                 /\ m[1].role = "system"
                 /\ m[Len(m)].content =
                       req[r].user_input \o <<"\n\nSearch results:\n">>
                                         \o formatted_content[r]]_vars

\* C10 witness: one request got a non-empty memory from a chat longer than
\* the window, and one got the empty memory for a new thread of a user whose
\* document holds other threads
C10_Witness ==
    \E r1, r2 \in Reqs :
        /\ memory[r1] # NoText
        /\ Len(conversation_history[r1][1].history[req[r1].thread_id].chat) > 5
        /\ "fetch" \in Range(log[r2])
        /\ conversation_history[r2] # <<>>
        /\ req[r2].thread_id \notin DOMAIN conversation_history[r2][1].history
        /\ memory[r2] = NoText

\* C11: an /ask whose user_id, thread or question is missing or empty is
\* answered 400 with the fixed error body at once: it makes no retrieval,
\* fetch or generation call (none completes, none raises) and its arrival
\* leaves the container unchanged.
C11_ValidationFirst ==
    [][\A r \in Reqs :
          ( /\ pc'[r] # "idle"
            /\ \/ req'[r].user_id = Missing
               \/ req'[r].thread_id = Missing
               \/ req'[r].user_input = NoText )
          => /\ pc'[r] = "done"
             /\ reply'[r] = BadRequest
             /\ log'[r] = <<>>
             /\ failed'[r] = "none"
             /\ pc[r] = "idle" => container' = container]_vars

\* C11 witness: a request with only the thread missing was answered 400
C11_Witness ==
    \E r \in Reqs :
        /\ reply[r].code = 400
        /\ req[r].user_id # Missing /\ req[r].user_input # NoText
        /\ req[r].thread_id = Missing

\* the documents of user u in container c
DocsOf(c, u) == {d \in c : d.id = u}

\* C12: a GET /history/{user_id}/{thread_id} whose query returns is answered
\* 404 exactly when the user has no stored document, and otherwise 200 with
\* the {req, res} pairs (no img) of history[thread_id].chat in stored order,
\* the empty list when thread_id is no key; a raising query is answered 500;
\* the request never changes the container.
C12_HistoryEndpoint ==
    [][hist' # hist =>
          LET u == hist'.user_id
              t == hist'.thread_id
              docs == DocsOf(container, u)
          IN /\ container' = container
             /\ hist'.code \in {200, 404, 500}
             /\ hist'.code = 404 => docs = {} /\ hist'.body = <<>>
             /\ hist'.code = 200 =>
                   /\ docs # {}
                   /\ \A d \in docs :
                         IF t \in DOMAIN d.history
                         THEN /\ Len(hist'.body) = Len(d.history[t].chat)
                              /\ \A i \in 1..Len(hist'.body) :
                                    hist'.body[i] = [req |-> d.history[t].chat[i].req,
                                                     res |-> d.history[t].chat[i].res]
                         ELSE hist'.body = <<>>
             /\ hist'.code = 500 => hist'.items = <<>> /\ hist'.body = <<>>
             /\ hist'.code # 500 => (hist'.code = 404 <=> docs = {})]_vars

\* C12 witness: a 200 reply with the empty list for a thread that is no key
\* of the user's stored history
C12_Witness ==
    /\ hist.code = 200
    /\ hist.body = <<>>
    /\ HasDoc(container, hist.user_id)
    /\ hist.thread_id \notin DOMAIN StoredHistory(container, hist.user_id)

\* C13: in every reachable state the container holds at most one document
\* per user_id, and every document is keyed by the user_id of a request or
\* was stored before.
C13_OneDocPerUser ==
    /\ \A u \in Users : Cardinality(DocsOf(container, u)) <= 1
    /\ \A d \in container : d.id \in Users

\* C13 witness: two asks of one user have both been upserted
C13_Witness ==
    \E r1, r2 \in Reqs :
        /\ r1 # r2
        /\ reply[r1].code = 200 /\ reply[r2].code = 200
        /\ req[r1].user_id = req[r2].user_id

\* the results of the fetches for user u that the requests hold
Fetched(u) ==
    {conversation_history[r] : r \in {x \in Reqs : req[x].user_id = u
                                                   /\ "fetch" \in Range(log[x])}}
    \cup {existing_conversation[r] : r \in {x \in Reqs : req[x].user_id = u
                                       /\ ("save" \in Range(log[x]) \/ failed[x] = "merge")}}
    \cup {hist.items : x \in {y \in {1} : hist.user_id = u /\ hist.code \in {200, 404}}}
    \cup {gch.items : x \in {y \in {1} : gch.user_id = u
                                          /\ (gch.code = 200 \/ gch.raised = "IndexError")}}

\* an upsert for user u has completed
Upserted(u) == \E r \in Reqs : req[r].user_id = u /\ "upsert" \in Range(log[r])

\* all fetches of a user without an upsert for that user agree
ReadsAgree == \A u \in Users : ~Upserted(u) => Cardinality(Fetched(u)) <= 1

\* C14: a fetch (in /ask by get_llm_response and by save_conversation, in
\* /history and in /getchathistory) returns the stored documents of the user
\* and leaves the container unchanged, and the fetches of a user with no
\* upsert for that user all return identical data.
C14_ReadIdempotent ==
    [][/\ \A r \in Reqs :
            /\ Completes(r, "fetch") =>
                  /\ container' = container
                  /\ Range(conversation_history'[r]) = DocsOf(container, req[r].user_id)
            /\ (pc[r] = "save" /\ pc'[r] # "save" /\ failed'[r] # "save") =>
                  /\ container' = container
                  /\ Range(existing_conversation'[r]) = DocsOf(container, req[r].user_id)
       /\ (hist' # hist /\ hist'.code # 500) =>
            /\ container' = container
            /\ Range(hist'.items) = DocsOf(container, hist'.user_id)
       /\ (gch' # gch /\ gch'.raised # "query") =>
            /\ container' = container
            /\ Range(gch'.items) = DocsOf(container, gch'.user_id)
       /\ ReadsAgree']_vars

\* C14 witness: /history and /getchathistory fetched the document of a user
\* after an ask of another user was upserted, and returned the same data
C14_Witness ==
    \E r \in Reqs :
        /\ "upsert" \in Range(log[r])
        /\ hist.code = 200 /\ gch.code = 200
        /\ hist.user_id = gch.user_id /\ hist.user_id # req[r].user_id
        /\ hist.items = gch.items
        /\ hist.items = query_items(container, hist.user_id)

\* C15: a POST /getchathistory whose query returns gives, for a user with a
\* stored document, the whole history mapping of the most recent matching
\* document; for a user with no stored document the handler produces no reply
\* of its own (no not-found result): the [0] access raises IndexError, which
\* nothing catches.
C15_GetChatHistory ==
    [][(gch' # gch /\ gch'.raised # "query") =>
          LET docs == DocsOf(container, gch'.user_id)
          IN /\ docs # {} =>
                  /\ gch'.code = 200 /\ gch'.raised = ""
                  /\ \E d \in docs :
                        /\ \A e \in docs : e.timestamp <= d.timestamp
                        /\ gch'.body = d.history
             /\ docs = {} =>
                  /\ gch'.raised = "IndexError"
                  /\ gch'.code = 0
                  /\ gch'.body = <<>>]_vars

\* C15 witness: the request of a known user with no stored document failed
\* on the index
C15_Witness ==
    /\ gch.user_id \in Users
    /\ ~HasDoc(container, gch.user_id)
    /\ gch.raised = "IndexError"

-----------------------------------------------------------------------------
\* the thread t of history mapping h has a non-empty chat whose last Turn
\* asks the heading
HeadingIsLatest(h, t) ==
    /\ h[t].chat # <<>>
    /\ h[t].heading = h[t].chat[Len(h[t].chat)].req

SaveFetched(r) == "save" \in Range(log[r]) \/ failed[r] = "merge"

\* C17: in every execution of an /ask request the documents to which the new
\* Turn is merged in the persist step are the documents from which the
\* request's memory was built (the request sees one version of the document).
C17_SameSnapshot ==
    \A r \in Reqs : SaveFetched(r) => existing_conversation[r] = conversation_history[r]

\* C18: whenever an /ask request is answered 200, its upsert completes before
\* the reply, and the document it wrote, which is then the stored document of
\* the user, has as the last Turn of history[thread].chat exactly
\* {req: the question, res: the returned response, img: the returned images}.
C18_OkMeansPersisted ==
    [][\A r \in Reqs :
          (reply'[r].code = 200 /\ reply[r].code # 200) =>
              /\ Completes(r, "upsert")
              /\ item[r] \in container'
              /\ req[r].thread_id \in DOMAIN item[r].history
              /\ LET chat == item[r].history[req[r].thread_id].chat
                 IN /\ chat # <<>>
                    /\ chat[Len(chat)] = Turn(req[r].user_input,
                                              reply'[r].response,
                                              reply'[r].images)]_vars

\* C18 witness: a request answered 200 with images after its upsert
C18_Witness ==
    \E r \in Reqs :
        /\ reply[r].code = 200
        /\ reply[r].images # <<>>
        /\ "upsert" \in Range(log[r])

====
